---- MODULE Spec2Model ----
(***************************************************************************)
(* differential_threads.py: screw threads, differential thread pairs and   *)
(* the catalog of all differential pairs of a list of threads.             *)
(*                                                                         *)
(* Magnitudes are exact rationals <<n, d>> (d > 0, lowest terms) instead   *)
(* of floats; a pint.Quantity is a magnitude with a unit.  math.sqrt(3) is *)
(* the rational 1732/1000.                                                 *)
(***************************************************************************)
EXTENDS Integers, Sequences, FiniteSets, TLC

VARIABLES pc, call, made, THREADS, differentials, output

vars == <<pc, call, made, THREADS, differentials, output>>

\* Longest list of threads the catalog is generated from.
MaxThreads == 3

----------------------------------------------------------------------------
\* Exact rational arithmetic (fractions.Fraction / float magnitudes)

Abs(x) == IF x < 0 THEN -x ELSE x

RECURSIVE GCD(_, _)
GCD(a, b) == IF b = 0 THEN a ELSE GCD(b, a % b)

Norm(n, d) ==
    LET g == GCD(Abs(n), Abs(d))
        s == IF d < 0 THEN -1 ELSE 1
    IN  <<(s * n) \div g, (s * d) \div g>>

Rat(n, d) == Norm(n, d)
RZero == <<0, 1>>
ROne == <<1, 1>>
\* sums and comparisons over the least common denominator, products
\* cross-reduced, so that intermediate values stay small
RAdd(a, b) ==
    LET g == GCD(a[2], b[2])
    IN  Norm(a[1] * (b[2] \div g) + b[1] * (a[2] \div g), (a[2] \div g) * b[2])
RNeg(a) == <<-a[1], a[2]>>
RSub(a, b) == RAdd(a, RNeg(b))
RMul(a, b) ==
    LET g == GCD(Abs(a[1]), b[2])
        k == GCD(Abs(b[1]), a[2])
    IN  Norm((a[1] \div g) * (b[1] \div k), (a[2] \div k) * (b[2] \div g))
RDiv(a, b) == RMul(a, IF b[1] < 0 THEN <<-b[2], -b[1]>> ELSE <<b[2], b[1]>>)
RAbs(a) == <<Abs(a[1]), a[2]>>
RLt(a, b) ==
    LET g == GCD(a[2], b[2])
    IN  a[1] * (b[2] \div g) < b[1] * (a[2] \div g)
RGt(a, b) == RLt(b, a)

----------------------------------------------------------------------------
\* pint quantities: a magnitude and a unit of length or of inverse length

\* None, for an argument or field that holds no quantity
None == [mag |-> RZero, unit |-> "None"]

Q(m, u) == [mag |-> m, unit |-> u]

\* 1 inch = 25.4 mm = 127/5 mm
MmPerInch == Rat(127, 5)

InverseUnit(u) ==
    CASE u = "mm" -> "1/mm"
      [] u = "inch" -> "1/inch"
      [] u = "1/mm" -> "mm"
      [] u = "1/inch" -> "inch"

\* Quantity.to(unit)
To(q, u) ==
    IF q.unit = u THEN q
    ELSE CASE q.unit = "mm" /\ u = "inch" -> Q(RDiv(q.mag, MmPerInch), u)
           [] q.unit = "inch" /\ u = "mm" -> Q(RMul(q.mag, MmPerInch), u)
           [] q.unit = "1/mm" /\ u = "1/inch" -> Q(RMul(q.mag, MmPerInch), u)
           [] q.unit = "1/inch" /\ u = "1/mm" -> Q(RDiv(q.mag, MmPerInch), u)

\* a - b: the result keeps the unit of a
QSub(a, b) == Q(RSub(a.mag, To(b, a.unit).mag), a.unit)
\* abs(a)
QAbs(a) == Q(RAbs(a.mag), a.unit)
\* r * a and a / r for a plain number r
QTimes(r, a) == Q(RMul(r, a.mag), a.unit)
QOver(a, r) == Q(RDiv(a.mag, r), a.unit)
\* 1 / a, for a of non-zero magnitude
QInv(a) == Q(RDiv(ROne, a.mag), InverseUnit(a.unit))
\* a == b, a < b, a > b on quantities of the same dimension
QEq(a, b) == a.mag = To(b, a.unit).mag
QLt(a, b) == RLt(a.mag, To(b, a.unit).mag)
QGt(a, b) == RGt(a.mag, To(b, a.unit).mag)
\* bool(a): None is false, a quantity is true when its magnitude is not zero
Truthy(a) == a.unit # "None" /\ a.mag # RZero

----------------------------------------------------------------------------
\* Thread

\* math.sqrt(3)
Sqrt3 == Rat(1732, 1000)

NoThread == [cls |-> "None"]

\* Variation: the elif branch forgotten, tpi never consulted
RaisesWithoutPitch(pitch, tpi) == ~Truthy(pitch)

\* Thread.__post_init__ : the pitch and tpi after the if/elif, or the raise
Raises(pitch, tpi) == ~Truthy(pitch) /\ ~Truthy(tpi)

PostInitPitch(pitch, tpi) == IF Truthy(pitch) THEN pitch ELSE QInv(tpi)

PostInitTpi(pitch, tpi) == IF Truthy(pitch) THEN QInv(pitch) ELSE tpi

MinorDiameter(major_diameter, pitch) ==
    QSub(major_diameter, QOver(QTimes(RMul(Rat(5, 1), Sqrt3), pitch), Rat(8, 1)))

\* The object a successful construction of class cls returns;
\* number is the attribute NumberedUTSThread.__init__ sets (0 elsewhere).
NewThread(cls, major_diameter, pitch, tpi, number) ==
    LET p == PostInitPitch(pitch, tpi)
        t == PostInitTpi(pitch, tpi)
    IN  [cls |-> cls,
         major_diameter |-> major_diameter,
         minor_diameter |-> MinorDiameter(major_diameter, p),
         pitch |-> p,
         tpi |-> t,
         number |-> number,
         formatted_tpi |-> IF cls \in {"FractionalUTSThread", "NumberedUTSThread"}
                           THEN To(t, "1/inch").mag ELSE RZero]

\* dataclass __eq__ of Thread: same class and equal (major_diameter,
\* minor_diameter, pitch, tpi); NotImplemented for different classes, and
\* then == falls back to identity.  a and b are references into heap h.
FieldsEq(x, y) ==
    /\ QEq(x.major_diameter, y.major_diameter)
    /\ QEq(x.minor_diameter, y.minor_diameter)
    /\ QEq(x.pitch, y.pitch)
    /\ QEq(x.tpi, y.tpi)

ThreadEq(h, a, b) ==
    IF h[a].cls = h[b].cls THEN FieldsEq(h[a], h[b]) ELSE a = b

\* Thread.__gt__ : tuple comparison of (major_diameter, minor_diameter)
ThreadGt(x, y) ==
    IF ~QEq(x.major_diameter, y.major_diameter)
    THEN QGt(x.major_diameter, y.major_diameter)
    ELSE QGt(x.minor_diameter, y.minor_diameter)

\* __lt__ as functools.total_ordering derives it from __gt__:
\* (not a > b) and (a != b)
ThreadLt(h, a, b) == ~ThreadGt(h[a], h[b]) /\ ~ThreadEq(h, a, b)

\* str(thread): the display form, as its parts
Str(t) ==
    CASE t.cls = "ISOThread" ->
            <<"M", To(t.major_diameter, "mm").mag, "-", To(t.pitch, "mm").mag>>
      [] t.cls = "FractionalUTSThread" ->
            <<To(t.major_diameter, "inch").mag, "\"-", t.formatted_tpi>>
      [] t.cls = "NumberedUTSThread" ->
            <<"#", t.number, "-", t.formatted_tpi>>
      [] OTHER ->
            <<"Thread(", t.major_diameter, t.minor_diameter, t.pitch, t.tpi>>

----------------------------------------------------------------------------
\* DifferentialThread

\* Variation: the pair taken as given instead of sorted
Sorted2AsGiven(h, tp) == tp

\* sorted() of a 2-tuple: the two are swapped when the second < the first
Sorted2(h, tp) == IF ThreadLt(h, tp[2], tp[1]) THEN <<tp[2], tp[1]>> ELSE tp

\* what 1 / effective_pitch gives when effective_pitch is zero
ZeroDivisionError == [mag |-> RZero, unit |-> "ZeroDivisionError"]

\* Variation: thread_pair overwritten by the sorted pair
DifferentialThreadSortedPair(h, thread_pair) ==
    LET s == Sorted2(h, thread_pair)
        effective_pitch == QAbs(QSub(h[s[1]].pitch, h[s[2]].pitch))
        radial_clearance ==
            QOver(QSub(h[s[2]].minor_diameter, h[s[1]].major_diameter), Rat(2, 1))
    IN  [thread_pair |-> s,
         effective_pitch |-> effective_pitch,
         effective_tpi |-> IF effective_pitch.mag = RZero
                           THEN ZeroDivisionError ELSE QInv(effective_pitch),
         radial_clearance |-> IF RGt(radial_clearance.mag, RZero)
                              THEN radial_clearance ELSE Q(RZero, "inch")]

\* DifferentialThread(thread_pair), thread_pair a pair of references into h
DifferentialThread(h, thread_pair) ==
    LET s == Sorted2(h, thread_pair)
        smaller_thread == h[s[1]]
        larger_thread == h[s[2]]
        effective_pitch == QAbs(QSub(smaller_thread.pitch, larger_thread.pitch))
        radial_clearance ==
            QOver(QSub(larger_thread.minor_diameter, smaller_thread.major_diameter),
                  Rat(2, 1))
    IN  [thread_pair |-> thread_pair,
         effective_pitch |-> effective_pitch,
         effective_tpi |-> IF effective_pitch.mag = RZero
                           THEN ZeroDivisionError ELSE QInv(effective_pitch),
         radial_clearance |-> IF RGt(radial_clearance.mag, RZero)
                              THEN radial_clearance ELSE Q(RZero, "inch")]

\* Variation: radial_clearance left out of the comparison
DifferentialLtPitchOnly(p, q) == QLt(p.effective_pitch, q.effective_pitch)

\* dataclass(order=True) __lt__ : tuple comparison of the compare fields,
\* (effective_pitch, radial_clearance)
DifferentialLt(p, q) ==
    IF ~QEq(p.effective_pitch, q.effective_pitch)
    THEN QLt(p.effective_pitch, q.effective_pitch)
    ELSE QLt(p.radial_clearance, q.radial_clearance)

----------------------------------------------------------------------------
\* Catalog generation

\* itertools.combinations(range(1..n), 2) from <<i, j>> on, in its order
RECURSIVE CombinationsFrom(_, _, _)
CombinationsFrom(i, j, n) ==
    IF i >= n THEN <<>>
    ELSE IF j > n THEN CombinationsFrom(i + 1, i + 2, n)
    ELSE <<<<i, j>>>> \o CombinationsFrom(i, j + 1, n)

\* Variation: the last thread never paired
CombinationsOffByOne(n) == CombinationsFrom(1, 2, n - 1)

Combinations(n) == CombinationsFrom(1, 2, n)

\* Variation: no filter
PitchFilterNone(h, tp) == TRUE

\* the filter of the generator expression: left.pitch != right.pitch
PitchFilter(h, tp) == ~QEq(h[tp[1]].pitch, h[tp[2]].pitch)

ThreadPairs(h) == SelectSeq(Combinations(Len(h)), LAMBDA tp : PitchFilter(h, tp))

\* sorted(): stable; x goes before the first element it is less than
RECURSIVE Insert(_, _)
Insert(x, s) ==
    IF s = <<>> THEN <<x>>
    ELSE IF DifferentialLt(x, Head(s)) THEN <<x>> \o s
    ELSE <<Head(s)>> \o Insert(x, Tail(s))

RECURSIVE SortedFrom(_, _)
SortedFrom(done, rest) ==
    IF rest = <<>> THEN done ELSE SortedFrom(Insert(Head(rest), done), Tail(rest))

\* Variation: no sort
Unsorted(s) == s

Sorted(s) == SortedFrom(<<>>, s)

\* the DifferentialThread of each pair, in the order of the pairs
RECURSIVE Constructed(_, _)
Constructed(h, pairs) ==
    IF pairs = <<>> THEN <<>>
    ELSE <<DifferentialThread(h, Head(pairs))>> \o Constructed(h, Tail(pairs))

Differentials(h) == Sorted(Constructed(h, ThreadPairs(h)))

\* 10^k
RECURSIVE Pow10(_)
Pow10(k) == IF k = 0 THEN 1 ELSE 10 * Pow10(k - 1)

\* format spec 0.<places>f : the digits of r rounded to places decimals
\* (round half to even), as the integer r * 10^places rounded
Fixed(r, places) ==
    LET x == RMul(r, Rat(Pow10(places), 1))
        f == x[1] \div x[2]
        twice == 2 * (x[1] - f * x[2])
    IN  IF twice < x[2] THEN f
        ELSE IF twice > x[2] THEN f + 1
        ELSE IF f % 2 = 0 THEN f ELSE f + 1

\* one record handed to json.dump
OutputRecord(h, differential) ==
    [threads |-> <<Str(h[differential.thread_pair[1]]),
                   Str(h[differential.thread_pair[2]])>>,
     radial_clearance |->
        <<Fixed(To(differential.radial_clearance, "inch").mag, 3), "in">>,
     effective_pitch |->
        <<Fixed(To(differential.effective_pitch, "inch").mag, 5), "in">>,
     effective_tpi |->
        Fixed(To(differential.effective_tpi, "1/inch").mag, 2)]

----------------------------------------------------------------------------
\* Arguments the constructors are called with

inch(n, d) == Q(Rat(n, d), "inch")
per_inch(n, d) == Q(Rat(n, d), "1/inch")

\* Thread(major_diameter, pitch, tpi): <<major_diameter, pitch, tpi>>
ThreadArgs ==
    { <<inch(1, 4), None, None>>,
      <<inch(1, 4), inch(1, 20), per_inch(10, 1)>>,
      <<inch(1, 4), inch(0, 1), per_inch(20, 1)>>,
      <<inch(1, 4), inch(0, 1), None>>,
      <<inch(1, 4), None, per_inch(0, 1)>>,
      <<inch(1, 4), inch(0, 1), per_inch(0, 1)>>,
      <<inch(1, 4), inch(-1, 20), None>>,
      <<inch(0, 1), inch(1, 20), None>>,
      <<inch(-1, 4), None, per_inch(20, 1)>> }

\* ISOThread.from_mm(major_diameter, pitch), both plain numbers
MmArgs ==
    { <<Rat(1, 1), Rat(1, 4)>>,
      <<Rat(127, 20), Rat(127, 100)>>,
      <<Rat(1, 1), Rat(0, 1)>> }

\* FractionalUTSThread.from_fraction(numerator, denominator, tpi)
FractionArgs ==
    { <<1, 4, 20>>, <<1, 4, 28>>, <<1, 4, 0>> }

\* NumberedUTSThread.from_number(number, tpi)
NumberArgs ==
    { <<5, 40>>, <<5, 0>> }

----------------------------------------------------------------------------
\* The program

NoCall == [ctor |-> "None", major_diameter |-> None, pitch |-> None, tpi |-> None]

Init ==
    /\ pc = "threads"
    /\ call = NoCall
    /\ made = NoThread
    /\ THREADS = <<>>
    /\ differentials = <<>>
    /\ output = <<>>

\* Thread.__init__ and __post_init__, reached from constructor ctor of class
\* cls: raises ValueError, or returns the thread that becomes the next
\* element of THREADS
Construct(ctor, cls, major_diameter, pitch, tpi, number) ==
    /\ pc = "threads"
    /\ Len(THREADS) < MaxThreads
    /\ call' = [ctor |-> ctor, major_diameter |-> major_diameter,
                pitch |-> pitch, tpi |-> tpi]
    /\ IF Raises(pitch, tpi)
       THEN /\ pc' = "ValueError"
            /\ made' = NoThread
            /\ THREADS' = THREADS
       ELSE /\ pc' = pc
            /\ made' = NewThread(cls, major_diameter, pitch, tpi, number)
            /\ THREADS' = Append(THREADS, made')
    /\ UNCHANGED <<differentials, output>>

Thread ==
    \E a \in ThreadArgs : Construct("Thread", "Thread", a[1], a[2], a[3], 0)

from_mm ==
    \E a \in MmArgs :
        Construct("from_mm", "ISOThread",
                  QTimes(a[1], Q(ROne, "mm")), QTimes(a[2], Q(ROne, "mm")), None, 0)

from_fraction ==
    \E a \in FractionArgs :
        Construct("from_fraction", "FractionalUTSThread",
                  QTimes(Rat(a[1], a[2]), Q(ROne, "inch")),
                  None, Q(Rat(a[3], 1), "1/inch"), 0)

\* number * 0.013 inch + 0.06 inch
NumberedMajorDiameter(number) ==
    Q(RAdd(RMul(Rat(number, 1), Rat(13, 1000)), Rat(6, 100)), "inch")

from_number ==
    \E a \in NumberArgs :
        Construct("from_number", "NumberedUTSThread",
                  NumberedMajorDiameter(a[1]), None, Q(Rat(a[2], 1), "1/inch"), a[1])

\* The with block: the sorted differentials of THREADS, as records, to json.dump;
\* a DifferentialThread whose 1 / effective_pitch divides by zero ends it
GenerateCatalog ==
    /\ pc = "threads"
    /\ LET ds == Differentials(THREADS)
       IN  IF \E k \in 1..Len(ds) : ds[k].effective_tpi = ZeroDivisionError
           THEN /\ pc' = "ZeroDivisionError"
                /\ UNCHANGED <<differentials, output>>
           ELSE /\ pc' = "done"
                /\ differentials' = ds
                /\ output' = [k \in 1..Len(ds) |-> OutputRecord(THREADS, ds[k])]
    /\ UNCHANGED <<call, made, THREADS>>

Next ==
    \/ Thread
    \/ from_mm
    \/ from_fraction
    \/ from_number
    \/ GenerateCatalog

Spec == Init /\ [][Next]_vars

----------------------------------------------------------------------------
\* Vocabulary of the properties: lengths as plain rationals in inches

Inches(q) == To(q, "inch").mag
RLe(a, b) == ~RLt(b, a)
RMax(a, b) == IF RLt(a, b) THEN b ELSE a
Refs == 1..Len(THREADS)
Placed == 1..Len(differentials)
Supplied(q) == q.unit # "None"
Called == call.ctor # "None"
Failed == pc = "ValueError" /\ made = NoThread
Returned == made # NoThread /\ THREADS # <<>> /\ THREADS[Len(THREADS)] = made

\* the key (major_diameter, minor_diameter) of x is lexicographically
\* smaller than that of y
KeyLess(x, y) ==
    \/ RLt(Inches(x.major_diameter), Inches(y.major_diameter))
    \/ /\ Inches(x.major_diameter) = Inches(y.major_diameter)
       /\ RLt(Inches(x.minor_diameter), Inches(y.minor_diameter))

PitchesDiffer(i, j) == Inches(THREADS[i].pitch) # Inches(THREADS[j].pitch)

\* C1: the catalog holds exactly one DifferentialThread for every two
\* positions i < j of THREADS whose threads differ in pitch, and none for
\* two positions of equal pitch, none twice and none of a thread with itself.
C1_ExactlyTheDistinctPitchPairs ==
    pc = "done" =>
        /\ Len(output) = Len(differentials)
        /\ \A k \in Placed : differentials[k].thread_pair \in Refs \X Refs
        /\ \A i, j \in Refs :
              LET n == Cardinality({k \in Placed :
                          {differentials[k].thread_pair[1],
                           differentials[k].thread_pair[2]} = {i, j}})
              IN  IF i # j /\ PitchesDiffer(i, j) THEN n = 1 ELSE n = 0

C1_Witness ==
    /\ pc = "done"
    /\ Len(differentials) >= 2
    /\ \E i, j \in Refs : i < j /\ ~PitchesDiffer(i, j)

\* C2: the differentials handed to json.dump are in ascending order of
\* effective_pitch.
C2_SortedByEffectivePitch ==
    pc = "done" =>
        \A k \in Placed :
            k + 1 \in Placed =>
                RLe(Inches(differentials[k].effective_pitch),
                    Inches(differentials[k + 1].effective_pitch))

\* the sort moved a pair of a later combination before an earlier one
C2_Witness ==
    /\ pc = "done"
    /\ \E k \in Placed :
          /\ k + 1 \in Placed
          /\ RLt(Inches(differentials[k].effective_pitch),
                 Inches(differentials[k + 1].effective_pitch))
          /\ \/ differentials[k].thread_pair[1] > differentials[k + 1].thread_pair[1]
             \/ /\ differentials[k].thread_pair[1] = differentials[k + 1].thread_pair[1]
                /\ differentials[k].thread_pair[2] > differentials[k + 1].thread_pair[2]

\* C3: every DifferentialThread of the catalog has effective_pitch equal to
\* the absolute difference of its threads' pitches and greater than 0, and
\* generating the catalog never divides by zero.
C3_EffectivePitchPositive ==
    /\ pc # "ZeroDivisionError"
    /\ \A k \in Placed :
          LET d == differentials[k]
              p1 == Inches(THREADS[d.thread_pair[1]].pitch)
              p2 == Inches(THREADS[d.thread_pair[2]].pitch)
          IN  /\ Inches(d.effective_pitch) = RAbs(RSub(p1, p2))
              /\ RGt(Inches(d.effective_pitch), RZero)
              /\ d.effective_tpi # ZeroDivisionError

C3_Witness ==
    /\ pc = "done"
    /\ differentials # <<>>
    /\ \E i, j \in Refs : i < j /\ ~PitchesDiffer(i, j)

\* C4: radial_clearance is max(0, (minor_diameter(larger) -
\* major_diameter(smaller)) / 2), smaller and larger being the two threads
\* in the order of their keys; so it is never negative.
RawClearance(d) ==
    LET x == THREADS[d.thread_pair[1]]
        y == THREADS[d.thread_pair[2]]
        smaller == IF KeyLess(y, x) THEN y ELSE x
        larger == IF KeyLess(y, x) THEN x ELSE y
    IN  RDiv(RSub(Inches(larger.minor_diameter), Inches(smaller.major_diameter)),
             Rat(2, 1))

C4_RadialClearanceClamped ==
    \A k \in Placed :
        /\ Inches(differentials[k].radial_clearance)
              = RMax(RZero, RawClearance(differentials[k]))
        /\ RLe(RZero, Inches(differentials[k].radial_clearance))

\* one pair clamped from a negative value, one positive whose second thread
\* is the smaller
C4_Witness ==
    /\ pc = "done"
    /\ \E k \in Placed :
          /\ RLt(RawClearance(differentials[k]), RZero)
          /\ differentials[k].radial_clearance.mag = RZero
    /\ \E k \in Placed :
          /\ RGt(differentials[k].radial_clearance.mag, RZero)
          /\ KeyLess(THREADS[differentials[k].thread_pair[2]],
                     THREADS[differentials[k].thread_pair[1]])

\* C5 (as claimed): constructing a Thread fails, and produces no Thread,
\* whenever not exactly one of pitch and tpi is supplied.
ExactlyOneSupplied == Supplied(call.pitch) # Supplied(call.tpi)

C5_FailsUnlessExactlyOne == Called /\ ~ExactlyOneSupplied => Failed

\* C5 (amended): constructing a Thread fails, and produces no Thread, when
\* neither pitch nor tpi is supplied; when both are supplied it fails only
\* if both have zero magnitude, and otherwise returns a Thread, of the
\* supplied pitch when that is not zero, with tpi = 1 / pitch.
C5_FailsWhenNeither ==
    Called =>
        /\ Failed \/ Returned
        /\ ~Supplied(call.pitch) /\ ~Supplied(call.tpi) => Failed
        /\ Supplied(call.pitch) /\ Supplied(call.tpi) =>
              /\ Failed <=> (call.pitch.mag = RZero /\ call.tpi.mag = RZero)
              /\ Returned =>
                    /\ RMul(made.pitch.mag, made.tpi.mag) = ROne
                    /\ call.pitch.mag # RZero => made.pitch = call.pitch
                    /\ call.pitch.mag = RZero => made.tpi = call.tpi

C5_Witness ==
    /\ Supplied(call.pitch)
    /\ Supplied(call.tpi)
    /\ call.pitch.mag # RZero
    /\ Returned
    /\ made.tpi # call.tpi

\* C6: constructing a Thread fails, and produces no Thread, whenever the
\* supplied pitch or tpi is zero or negative or the major diameter is zero
\* or negative.
NonPositive(q) == Supplied(q) /\ RLe(q.mag, RZero)

C6_FailsOnNonPositive ==
    Called /\ ( \/ NonPositive(call.pitch)
                \/ NonPositive(call.tpi)
                \/ NonPositive(call.major_diameter) ) => Failed

\* C7: every Thread a constructor returns has pitch and tpi populated with
\* pitch * tpi = 1, and minor_diameter < major_diameter.
C7_ReturnedThreadsConsistent ==
    \A i \in Refs :
        LET t == THREADS[i]
        IN  /\ Supplied(t.pitch) /\ Supplied(t.tpi)
            /\ InverseUnit(t.pitch.unit) = t.tpi.unit
            /\ RMul(t.pitch.mag, t.tpi.mag) = ROne
            /\ RLt(Inches(t.minor_diameter), Inches(t.major_diameter))

\* C8: a < b on threads holds exactly when the key (major_diameter,
\* minor_diameter) of a is lexicographically smaller than that of b,
\* whatever the classes of a and b; a < b and b < a never both hold.
C8_ThreadOrderIsKeyOrder ==
    \A a, b \in Refs :
        /\ ThreadLt(THREADS, a, b) <=> KeyLess(THREADS[a], THREADS[b])
        /\ ~(ThreadLt(THREADS, a, b) /\ ThreadLt(THREADS, b, a))

\* C9 (as claimed): p < q on DifferentialThreads holds exactly when
\* effective_pitch(p) < effective_pitch(q).
C9_OrderByEffectivePitchOnly ==
    \A k, l \in Placed :
        DifferentialLt(differentials[k], differentials[l])
            <=> RLt(Inches(differentials[k].effective_pitch),
                    Inches(differentials[l].effective_pitch))

\* C9 (amended): p < q on DifferentialThreads depends on effective_pitch
\* and radial_clearance only: it holds exactly when effective_pitch(p) <
\* effective_pitch(q), or the effective pitches are equal and
\* radial_clearance(p) < radial_clearance(q); the catalog orders pairs of
\* equal effective_pitch by radial_clearance.
C9_OrderByPitchThenClearance ==
    /\ \A k, l \in Placed :
          LET p == differentials[k]
              q == differentials[l]
          IN  DifferentialLt(p, q) <=>
                \/ RLt(Inches(p.effective_pitch), Inches(q.effective_pitch))
                \/ /\ Inches(p.effective_pitch) = Inches(q.effective_pitch)
                   /\ RLt(Inches(p.radial_clearance), Inches(q.radial_clearance))
    /\ \A k \in Placed :
          (k + 1 \in Placed
             /\ Inches(differentials[k].effective_pitch)
                   = Inches(differentials[k + 1].effective_pitch))
          => RLe(Inches(differentials[k].radial_clearance),
                 Inches(differentials[k + 1].radial_clearance))

\* two pairs of equal effective_pitch, the later combination placed first
\* for its smaller radial_clearance
C9_Witness ==
    /\ pc = "done"
    /\ \E k \in Placed :
          /\ k + 1 \in Placed
          /\ Inches(differentials[k].effective_pitch)
                = Inches(differentials[k + 1].effective_pitch)
          /\ RLt(Inches(differentials[k].radial_clearance),
                 Inches(differentials[k + 1].radial_clearance))
          /\ differentials[k].thread_pair[1] > differentials[k + 1].thread_pair[1]

\* C10: a DifferentialThread keeps thread_pair as given, the two threads in
\* the order of their positions in THREADS and not as smaller and larger;
\* the record's threads lists them in that order; generating the catalog
\* changes no thread.
C10_PairKeptInInputOrder ==
    \A k \in Placed :
        LET tp == differentials[k].thread_pair
        IN  /\ tp \in Refs \X Refs
            /\ tp[1] < tp[2]
            /\ output[k].threads = <<Str(THREADS[tp[1]]), Str(THREADS[tp[2]])>>

C10_ThreadsUnchanged == [][pc' = "done" => THREADS' = THREADS]_vars

C10_ThreadPairAsGiven == []C10_PairKeptInInputOrder /\ C10_ThreadsUnchanged

\* a pair whose second thread is the smaller one and is displayed differently
C10_Witness ==
    /\ pc = "done"
    /\ \E k \in Placed :
          LET tp == differentials[k].thread_pair
          IN  /\ ThreadLt(THREADS, tp[2], tp[1])
              /\ ~ThreadLt(THREADS, tp[1], tp[2])
              /\ Str(THREADS[tp[1]]) # Str(THREADS[tp[2]])

====
